---- MODULE Spec2Model ----
(***************************************************************************)
(* cloudflare-ddns: the DDNS service of src/unnamed/part_000 (the version  *)
(* with the API key, createDNSRecord and the add-triggered update).        *)
(*                                                                         *)
(* Node.js runs the program on one thread: a handler runs without          *)
(* interruption until it reaches an `await` on a network call, and there   *)
(* any other handler or timer callback may run.  Every action below is one *)
(* such uninterrupted segment: from a callback's start, or from the return *)
(* of the call it awaited, to its next await or its end.                   *)
(*                                                                         *)
(* Strings are sequences of one-character strings, so that trim() is       *)
(* computed rather than assumed.                                           *)
(***************************************************************************)
EXTENDS Integers, Sequences, FiniteSets, TLC

\* ------------------------------------------------------------ bounds
\* external events in a behaviour: interval ticks, POST /domains requests,
\* DELETE /domains requests and changes of the host's public IP, in any mix
MaxEvents == 2

\* ------------------------------------------------------------ values
\* JavaScript null (no one-character string is "null")
Null == <<"null">>
\* fs.existsSync(file) is false
NoFile == <<"ENOENT">>
\* domains.json: absent, holding text JSON.parse rejects, or holding the
\* JSON text of a list (JSON.parse(JSON.stringify(l)) = l for lists of
\* {zone, record} objects with string fields)
AbsentFile == [state |-> "absent", list |-> <<>>]
CorruptFile == [state |-> "corrupt", list |-> <<>>]
JsonFile(l) == [state |-> "json", list |-> l]

IP1 == <<"1">>
IP2 == <<"2">>
\* the addresses the host may have
IPs == {IP1, IP2}

Whitespace == {" ", "\n"}

D1 == [zone |-> "a.com", record |-> "x.a.com"]
D2 == [zone |-> "b.com", record |-> "x.b.com"]
\* the (zone, record) pairs requests may name
Pairs == {D1, D2}
\* request bodies: a pair, or a body whose zone field is missing
Bodies == Pairs \cup {[zone |-> "", record |-> "x.a.com"]}

API_KEY == "secret"
\* values of the x-api-key header ("" stands for an absent header)
Keys == {"secret", "wrong", ""}

\* the invocation at process start and one for every tick
MaxPasses == MaxEvents + 1
Passes == 1..MaxPasses
Posts == 1..MaxEvents

VARIABLES
    domains,      \* contents of the array the variable `domains` refers to
    domainsFile,  \* contents of domains.json
    ipFile,       \* contents of last_ip.txt, or NoFile
    publicIP,     \* the host's public IP as api.ipify.org sees it
    nchanges,     \* how often publicIP has changed
    nevents,      \* external events so far
    pass,         \* the invocations of updateDNS, in the order they start
    post,         \* the POST /domains requests, in the order they arrive
    upsertCalls,  \* every <<pair, ip>> an update or create call was issued for
    ipEpoch,      \* nchanges at the time the IP in last_ip.txt was resolved
    del           \* the latest DELETE /domains request and its answer

vars == <<domains, domainsFile, ipFile, publicIP, nchanges, nevents,
          pass, post, upsertCalls, ipEpoch, del>>

\* ------------------------------------------------------------ pure helpers
RECURSIVE TrimLeft(_)
TrimLeft(s) ==
    IF s # <<>> /\ Head(s) \in Whitespace THEN TrimLeft(Tail(s)) ELSE s

RECURSIVE TrimRight(_)
TrimRight(s) ==
    IF s # <<>> /\ s[Len(s)] \in Whitespace
    THEN TrimRight(SubSeq(s, 1, Len(s) - 1))
    ELSE s

\* String.prototype.trim
Trim(s) == TrimRight(TrimLeft(s))

\* getLastIP(): the trimmed file, or null when there is no file
getLastIP == IF ipFile = NoFile THEN Null ELSE Trim(ipFile)

\* JavaScript truthiness of a string-or-null
Truthy(s) == s # Null /\ s # <<>>

\* the duplicate test left out
NeverPresent(arr, body) == FALSE

\* domains.some(d => d.zone === zone && d.record === record)
Present(arr, body) ==
    \E i \in 1..Len(arr) : arr[i].zone = body.zone /\ arr[i].record = body.record

\* the first element removed in place of the named one
FilterHead(arr, body) == IF Present(arr, body) THEN Tail(arr) ELSE arr

\* domains.filter(d => !(d.zone === zone && d.record === record))
RECURSIVE Filter(_, _)
Filter(arr, body) ==
    IF arr = <<>> THEN <<>>
    ELSE IF Head(arr).zone = body.zone /\ Head(arr).record = body.record
         THEN Filter(Tail(arr), body)
         ELSE <<Head(arr)>> \o Filter(Tail(arr), body)

\* the write left out: the file stays as it was
saveDomainsSkipped(doms) == domainsFile

\* saveDomains(), line 58: the file that holds the array `domains` refers to
saveDomains(doms) == JsonFile(doms)

\* any key at all admitted
AuthenticatedAny(key) == key # ""

\* authenticate: apiKey && apiKey === API_KEY
Authenticated(key) == key # "" /\ key = API_KEY

NoDup(arr) == \A i, j \in 1..Len(arr) : arr[i] = arr[j] => i = j

\* ------------------------------------------------------------ processes
\* An invocation of updateDNS.
\*   pc        "idle" (not started), "ip" (awaiting getPublicIP), "zone"
\*             (awaiting getZoneID), "rec" (awaiting getDNSRecordID), "upd" /
\*             "cre" (awaiting updateDNSRecord / createDNSRecord), "done"
\*   currentIP, lastIP   the locals of updateDNS (lastIP: Null before it is read)
\*   arr, idx  the array object the for-of iterator walks and the position of
\*             the element being attempted
\*   sameObj   whether the variable `domains` still refers to that array object
\* and, recorded for the properties:
\*   read      whether getLastIP() was evaluated
\*   snap      the managed set when the pass compared the IPs
\*   epoch     nchanges when the pass resolved its IP
\*   zoneOK, issued   positions whose zone resolved / for which an update or
\*             create call was issued
\*   wrote     the values this pass gave to saveLastIP, in order
IdlePass ==
    [pc |-> "idle", currentIP |-> Null, lastIP |-> Null, read |-> FALSE,
     arr |-> <<>>, idx |-> 0, sameObj |-> FALSE, snap |-> <<>>, epoch |-> 0,
     zoneOK |-> {}, issued |-> {}, wrote |-> <<>>]

\* A POST /domains request.
\*   pc        as above; status is the HTTP status answered (0: none yet)
\*   key       the x-api-key header of the request
\*   body      the request body (as far as a handler looked at it);
\*             currentIP the handler's local
\*   pushed    whether the handler executed domains.push
\*   issued    whether it issued an update or create call
\*   epoch     nchanges when the handler resolved its IP
\*   wrote     the values it gave to saveLastIP
IdlePost ==
    [pc |-> "idle", key |-> "", body |-> D1, status |-> 0, reason |-> "",
     currentIP |-> Null, pushed |-> FALSE, issued |-> FALSE, epoch |-> 0,
     wrote |-> <<>>]

\* A DELETE /domains request: the n-th, with its header, its body (as far as
\* the handler looked at it) and the HTTP status answered
NoDelete == [n |-> 0, key |-> "", body |-> D1, status |-> 0]

InLoop(p) == p.pc \in {"zone", "rec", "upd", "cre"}
Running(p) == p.pc \in {"ip", "zone", "rec", "upd", "cre"}

\* ------------------------------------------------------------ initial state
\* The state once the module has been loaded: domains.json read (or created),
\* the interval timer armed and the first updateDNS() suspended on getPublicIP.
InitDomainsFile == {AbsentFile, CorruptFile, JsonFile(<<D1>>)}
InitIPFile == {NoFile, IP1 \o <<"\n">>}

\* lines 44-56: what the start-up code makes of domains.json
LoadDomains(f) == IF f.state = "json" THEN f.list ELSE <<>>
FileAfterLoad(f) == IF f.state = "absent" THEN JsonFile(<<>>) ELSE f

\* The calls earlier runs of the program issued.  last_ip.txt holding an IP
\* is taken to mean that every managed pair was upserted with it: the
\* reading most favourable to the convergence claim.
EarlierCalls(doms, f) ==
    IF f = NoFile THEN {} ELSE {<<doms[i], Trim(f)>> : i \in 1..Len(doms)}

Init ==
    /\ \E f \in InitDomainsFile :
          /\ domains = LoadDomains(f)
          /\ domainsFile = FileAfterLoad(f)
    /\ ipFile \in InitIPFile
    /\ publicIP = IP1
    /\ nchanges = 0
    /\ nevents = 0
    /\ pass = [k \in Passes |-> IF k = 1 THEN [IdlePass EXCEPT !.pc = "ip"] ELSE IdlePass]
    /\ post = [j \in Posts |-> IdlePost]
    /\ upsertCalls = EarlierCalls(domains, ipFile)
    /\ ipEpoch = 0
    /\ del = NoDelete

\* ------------------------------------------------------------ updateDNS
\* fs.writeFileSync(IP_FILE, ip) for the value process `new` has just appended
\* to its `wrote`, if it appended one
SaveLastIP(old, new) ==
    IF new.wrote # old.wrote
    THEN /\ ipFile' = new.wrote[Len(new.wrote)]
         /\ ipEpoch' = new.epoch
    ELSE UNCHANGED <<ipFile, ipEpoch>>

\* the fast path also taken when there is no LastKnownIP
SkipWhenUnset(currentIP, lastIP) == lastIP = Null \/ currentIP = lastIP

\* line 183: the unchanged-IP fast path
SkipPass(currentIP, lastIP) == currentIP = lastIP

\* saveLastIP moved into the loop body
AdvanceSaving(r) ==
    IF r.idx < Len(r.arr)
    THEN [r EXCEPT !.idx = @ + 1, !.pc = "zone",
                   !.wrote = Append(@, r.currentIP)]
    ELSE [r EXCEPT !.pc = "done", !.sameObj = FALSE,
                   !.wrote = Append(@, r.currentIP)]

\* lines 190 and 203: the for-of iterator's next step on its array object:
\* the next element and a getZoneID call, or the end of the loop and
\* saveLastIP(currentIP)
Advance(r) ==
    IF r.idx < Len(r.arr)
    THEN [r EXCEPT !.idx = @ + 1, !.pc = "zone"]
    ELSE [r EXCEPT !.pc = "done", !.sameObj = FALSE,
                   !.wrote = Append(@, r.currentIP)]

\* the test of line 180 left out
AfterIPUnchecked(r, ip, last, doms, now) ==
    LET seen == [r EXCEPT !.currentIP = ip, !.lastIP = last, !.read = Truthy(ip),
                          !.snap = doms, !.epoch = now]
    IN  IF SkipPass(ip, last)
        THEN [seen EXCEPT !.pc = "done"]
        ELSE Advance([seen EXCEPT !.arr = doms, !.sameObj = TRUE])

\* lines 179-190: getPublicIP has returned `ip`
AfterIP(r, ip, last, doms, now) ==
    IF ~Truthy(ip)
    THEN [r EXCEPT !.pc = "done"]
    ELSE LET seen == [r EXCEPT !.currentIP = ip, !.lastIP = last, !.read = TRUE,
                               !.snap = doms, !.epoch = now]
         IN  IF SkipPass(ip, last)
             THEN [seen EXCEPT !.pc = "done"]
             ELSE Advance([seen EXCEPT !.arr = doms, !.sameObj = TRUE])

\* `return` where the code says `continue`
ZoneMissAborts(r) == [r EXCEPT !.pc = "done", !.sameObj = FALSE]

\* line 192: getZoneID returned null: `continue`
ZoneMiss(r) == Advance(r)

\* lines 191-194: getZoneID has returned
AfterZone(r, found) ==
    IF found
    THEN [r EXCEPT !.zoneOK = @ \cup {r.idx}, !.pc = "rec"]
    ELSE ZoneMiss(r)

\* lines 194-200: getDNSRecordID has returned a record id ("found"), null
\* because there is no such record ("none") or null because the request
\* failed ("error"); the update or create call is issued
AfterRecord(r, res) ==
    [r EXCEPT !.pc = IF res = "found" THEN "upd" ELSE "cre",
              !.issued = @ \cup {r.idx}]

\* the same pair taken up again after its update or create call
AfterUpsertAgain(r, ok) == [r EXCEPT !.pc = "zone"]

\* lines 196-201: updateDNSRecord / createDNSRecord has returned; both
\* return nothing, whether the provider accepted the request (ok) or not
AfterUpsert(r, ok) == Advance(r)

\* the timer armed again only by a pass that ran to its last line
TickRearmed(k) ==
    /\ k > 1
    /\ pass[k].pc = "idle"
    /\ pass[k - 1].wrote # <<>>
    /\ nevents < MaxEvents
    /\ nevents' = nevents + 1
    /\ pass' = [pass EXCEPT ![k].pc = "ip"]
    /\ UNCHANGED <<domains, domainsFile, ipFile, publicIP, nchanges, post,
                   upsertCalls, ipEpoch, del>>

\* line 206: the interval timer fires and calls updateDNS, whether or not
\* earlier invocations have finished
Tick(k) ==
    /\ k > 1
    /\ pass[k].pc = "idle"
    /\ pass[k - 1].pc # "idle"
    /\ nevents < MaxEvents
    /\ nevents' = nevents + 1
    /\ pass' = [pass EXCEPT ![k].pc = "ip"]
    /\ UNCHANGED <<domains, domainsFile, ipFile, publicIP, nchanges, post,
                   upsertCalls, ipEpoch, del>>

PassGotIP(k) ==
    /\ pass[k].pc = "ip"
    /\ \E ip \in {publicIP, Null} :
          LET new == AfterIP(pass[k], ip, getLastIP, domains, nchanges)
          IN  /\ pass' = [pass EXCEPT ![k] = new]
              /\ SaveLastIP(pass[k], new)
    /\ UNCHANGED <<domains, domainsFile, publicIP, nchanges, nevents, post,
                   upsertCalls, del>>

PassGotZone(k) ==
    /\ pass[k].pc = "zone"
    /\ \E found \in BOOLEAN :
          LET new == AfterZone(pass[k], found)
          IN  /\ pass' = [pass EXCEPT ![k] = new]
              /\ SaveLastIP(pass[k], new)
    /\ UNCHANGED <<domains, domainsFile, publicIP, nchanges, nevents, post,
                   upsertCalls, del>>

PassGotRecord(k) ==
    /\ pass[k].pc = "rec"
    /\ \E res \in {"found", "none", "error"} :
          LET new == AfterRecord(pass[k], res)
          IN  /\ pass' = [pass EXCEPT ![k] = new]
              /\ SaveLastIP(pass[k], new)
              /\ upsertCalls' = IF new.issued # pass[k].issued
                                THEN upsertCalls \cup
                                     {<<new.arr[new.idx], new.currentIP>>}
                                ELSE upsertCalls
    /\ UNCHANGED <<domains, domainsFile, publicIP, nchanges, nevents, post,
                   del>>

PassUpserted(k) ==
    /\ pass[k].pc \in {"upd", "cre"}
    /\ \E ok \in BOOLEAN :
          LET new == AfterUpsert(pass[k], ok)
          IN  /\ pass' = [pass EXCEPT ![k] = new]
              /\ SaveLastIP(pass[k], new)
    /\ UNCHANGED <<domains, domainsFile, publicIP, nchanges, nevents, post,
                   upsertCalls, del>>

\* ------------------------------------------------------------ POST /domains
\* res.status(code).json(...) ends the handler
Respond(r, code, why) == [r EXCEPT !.pc = "done", !.status = code, !.reason = why]

\* line 217: domains.push mutates the array object in place, so every for-of
\* iterator that walks that object sees the new element
PushSeenBy(r, body) ==
    IF r.sameObj THEN [r EXCEPT !.arr = Append(@, body)] ELSE r

\* lines 32-40 and 210-222: the request passes authenticate and runs to the
\* await of getPublicIP, or is answered before
PostRequest(j) ==
    /\ post[j].pc = "idle"
    /\ IF j = 1 THEN TRUE ELSE post[j - 1].pc # "idle"
    /\ nevents < MaxEvents
    /\ nevents' = nevents + 1
    /\ \E key \in Keys :
          IF ~Authenticated(key)
          THEN /\ post' = [post EXCEPT
                             ![j] = Respond([post[j] EXCEPT !.key = key],
                                            401, "unauthorized")]
               /\ UNCHANGED <<domains, domainsFile, pass>>
          ELSE \E body \in Bodies :
                 LET r == [post[j] EXCEPT !.key = key, !.body = body]
                 IN  IF body.zone = "" \/ body.record = ""
                     THEN /\ post' = [post EXCEPT ![j] = Respond(r, 400, "missing")]
                          /\ UNCHANGED <<domains, domainsFile, pass>>
                     ELSE IF Present(domains, body)
                     THEN /\ post' = [post EXCEPT ![j] = Respond(r, 400, "duplicate")]
                          /\ UNCHANGED <<domains, domainsFile, pass>>
                     ELSE /\ domains' = Append(domains, body)
                          /\ domainsFile' = saveDomains(domains')
                          /\ pass' = [k \in Passes |-> PushSeenBy(pass[k], body)]
                          /\ post' = [post EXCEPT
                                        ![j] = [r EXCEPT !.pc = "ip", !.pushed = TRUE]]
    /\ UNCHANGED <<ipFile, publicIP, nchanges, upsertCalls, ipEpoch, del>>

\* lines 222-227
PostAfterIP(r, ip, now) ==
    IF ~Truthy(ip)
    THEN Respond(r, 500, "ip")
    ELSE [r EXCEPT !.currentIP = ip, !.epoch = now, !.pc = "zone"]

\* lines 227-232
PostAfterZone(r, found) ==
    IF found
    THEN [r EXCEPT !.pc = "rec"]
    ELSE Respond(r, 400, "zone")

\* the unchanged-IP fast path of updateDNS applied to the added pair as well
PostAfterRecordFastPath(r, res) ==
    IF r.currentIP = getLastIP
    THEN Respond(r, 201, "added")
    ELSE [r EXCEPT !.pc = IF res = "found" THEN "upd" ELSE "cre",
                   !.issued = TRUE]

\* lines 232-238
PostAfterRecord(r, res) ==
    [r EXCEPT !.pc = IF res = "found" THEN "upd" ELSE "cre",
              !.issued = TRUE]

\* lines 240-245
PostAfterUpsert(r, ok, last) ==
    Respond(IF r.currentIP # last
            THEN [r EXCEPT !.wrote = Append(@, r.currentIP)]
            ELSE r,
            201, "added")

PostGotIP(j) ==
    /\ post[j].pc = "ip"
    /\ \E ip \in {publicIP, Null} :
          post' = [post EXCEPT ![j] = PostAfterIP(post[j], ip, nchanges)]
    /\ UNCHANGED <<domains, domainsFile, ipFile, publicIP, nchanges, nevents,
                   pass, upsertCalls, ipEpoch, del>>

PostGotZone(j) ==
    /\ post[j].pc = "zone"
    /\ \E found \in BOOLEAN :
          post' = [post EXCEPT ![j] = PostAfterZone(post[j], found)]
    /\ UNCHANGED <<domains, domainsFile, ipFile, publicIP, nchanges, nevents,
                   pass, upsertCalls, ipEpoch, del>>

PostGotRecord(j) ==
    /\ post[j].pc = "rec"
    /\ \E res \in {"found", "none", "error"} :
          LET new == PostAfterRecord(post[j], res)
          IN  /\ post' = [post EXCEPT ![j] = new]
              /\ upsertCalls' = IF new.issued
                                THEN upsertCalls \cup {<<new.body, new.currentIP>>}
                                ELSE upsertCalls
    /\ UNCHANGED <<domains, domainsFile, ipFile, publicIP, nchanges, nevents,
                   pass, ipEpoch, del>>

PostUpserted(j) ==
    /\ post[j].pc \in {"upd", "cre"}
    /\ \E ok \in BOOLEAN :
          LET new == PostAfterUpsert(post[j], ok, getLastIP)
          IN  /\ post' = [post EXCEPT ![j] = new]
              /\ SaveLastIP(post[j], new)
    /\ UNCHANGED <<domains, domainsFile, publicIP, nchanges, nevents, pass,
                   upsertCalls, del>>

\* ------------------------------------------------------------ DELETE /domains
\* line 258: `domains = domains.filter(...)` binds the variable to a new array
\* object; iterators keep walking the old one
Rebound(r) == [r EXCEPT !.sameObj = FALSE]

\* res.status(code).json(...) of the DELETE handler (or of authenticate)
Answer(d, key, body, code) ==
    [n |-> d.n + 1, key |-> key, body |-> body, status |-> code]

\* lines 253-267 (after authenticate, lines 32-40)
Remove ==
    /\ nevents < MaxEvents
    /\ nevents' = nevents + 1
    /\ \E key \in Keys :
          IF ~Authenticated(key)
          THEN /\ del' = Answer(del, key, D1, 401)
               /\ UNCHANGED <<domains, domainsFile, pass>>
          ELSE \E body \in Bodies :
                 IF body.zone = "" \/ body.record = ""
                 THEN /\ del' = Answer(del, key, body, 400)
                      /\ UNCHANGED <<domains, domainsFile, pass>>
                 ELSE LET kept == Filter(domains, body)
                      IN  /\ domains' = kept
                          /\ pass' = [k \in Passes |-> Rebound(pass[k])]
                          /\ domainsFile' = IF Len(kept) = Len(domains)
                                            THEN domainsFile
                                            ELSE saveDomains(kept)
                          /\ del' = Answer(del, key, body,
                                           IF Len(kept) = Len(domains)
                                           THEN 404 ELSE 200)
    /\ UNCHANGED <<ipFile, publicIP, nchanges, post, upsertCalls, ipEpoch>>

\* ------------------------------------------------------------ environment
\* the host is given another public address
IPChange ==
    /\ nevents < MaxEvents
    /\ nevents' = nevents + 1
    /\ nchanges' = nchanges + 1
    /\ \E ip \in IPs \ {publicIP} : publicIP' = ip
    /\ UNCHANGED <<domains, domainsFile, ipFile, pass, post, upsertCalls,
                   ipEpoch, del>>

\* ------------------------------------------------------------ specification
Next ==
    \/ \E k \in Passes : Tick(k)
    \/ \E k \in Passes : PassGotIP(k)
    \/ \E k \in Passes : PassGotZone(k)
    \/ \E k \in Passes : PassGotRecord(k)
    \/ \E k \in Passes : PassUpserted(k)
    \/ \E j \in Posts : PostRequest(j)
    \/ \E j \in Posts : PostGotIP(j)
    \/ \E j \in Posts : PostGotZone(j)
    \/ \E j \in Posts : PostGotRecord(j)
    \/ \E j \in Posts : PostUpserted(j)
    \/ Remove
    \/ IPChange

Spec == Init /\ [][Next]_vars

\* The timer of setInterval keeps firing, and every external call (axios
\* request) a pass or handler awaits returns, with a result or an error.
TimerFires == \E k \in Passes : Tick(k)
CallReturns ==
    \/ \E k \in Passes :
          PassGotIP(k) \/ PassGotZone(k) \/ PassGotRecord(k) \/ PassUpserted(k)
    \/ \E j \in Posts :
          PostGotIP(j) \/ PostGotZone(j) \/ PostGotRecord(j) \/ PostUpserted(j)

LiveSpec == Spec /\ WF_vars(TimerFires) /\ WF_vars(CallReturns)

\* ------------------------------------------------------------ src/index.js
\* The earlier version of the service: no API key, POST /domains only records
\* the pair, and updateDNS only ever updates records that exist.  Its start-up
\* code, getLastIP, saveLastIP, timer and the part of updateDNS up to the
\* record lookup read as in part_000, so Init, Tick, PassGotIP, PassGotZone and
\* PassUpserted stand for them here as well.

\* index.js lines 156-159: getDNSRecordID has returned; without a record id
\* the loop goes on to the next pair
IndexAfterRecord(r, res) ==
    IF res = "found"
    THEN [r EXCEPT !.pc = "upd", !.issued = @ \cup {r.idx}]
    ELSE Advance(r)

IndexGotRecord(k) ==
    /\ pass[k].pc = "rec"
    /\ \E res \in {"found", "none", "error"} :
          LET new == IndexAfterRecord(pass[k], res)
          IN  /\ pass' = [pass EXCEPT ![k] = new]
              /\ SaveLastIP(pass[k], new)
              /\ upsertCalls' = IF new.issued # pass[k].issued
                                THEN upsertCalls \cup
                                     {<<new.arr[new.idx], new.currentIP>>}
                                ELSE upsertCalls
    /\ UNCHANGED <<domains, domainsFile, publicIP, nchanges, nevents, post,
                   del>>

\* index.js lines 168-180
IndexPostRequest(j) ==
    /\ post[j].pc = "idle"
    /\ IF j = 1 THEN TRUE ELSE post[j - 1].pc # "idle"
    /\ nevents < MaxEvents
    /\ nevents' = nevents + 1
    /\ \E body \in Bodies :
          LET r == [post[j] EXCEPT !.body = body]
          IN  IF body.zone = "" \/ body.record = ""
              THEN /\ post' = [post EXCEPT ![j] = Respond(r, 400, "missing")]
                   /\ UNCHANGED <<domains, domainsFile, pass>>
              ELSE IF Present(domains, body)
              THEN /\ post' = [post EXCEPT ![j] = Respond(r, 400, "duplicate")]
                   /\ UNCHANGED <<domains, domainsFile, pass>>
              ELSE /\ domains' = Append(domains, body)
                   /\ domainsFile' = saveDomains(domains')
                   /\ pass' = [k \in Passes |-> PushSeenBy(pass[k], body)]
                   /\ post' = [post EXCEPT
                                 ![j] = Respond([r EXCEPT !.pushed = TRUE],
                                                201, "added")]
    /\ UNCHANGED <<ipFile, publicIP, nchanges, upsertCalls, ipEpoch, del>>

\* index.js lines 182-196
IndexRemove ==
    /\ nevents < MaxEvents
    /\ nevents' = nevents + 1
    /\ \E body \in Bodies :
          IF body.zone = "" \/ body.record = ""
          THEN /\ del' = Answer(del, "", body, 400)
               /\ UNCHANGED <<domains, domainsFile, pass>>
          ELSE LET kept == Filter(domains, body)
               IN  /\ domains' = kept
                   /\ pass' = [k \in Passes |-> Rebound(pass[k])]
                   /\ domainsFile' = IF Len(kept) = Len(domains)
                                     THEN domainsFile
                                     ELSE saveDomains(kept)
                   /\ del' = Answer(del, "", body,
                                    IF Len(kept) = Len(domains) THEN 404 ELSE 200)
    /\ UNCHANGED <<ipFile, publicIP, nchanges, post, upsertCalls, ipEpoch>>

IndexNext ==
    \/ \E k \in Passes : Tick(k)
    \/ \E k \in Passes : PassGotIP(k)
    \/ \E k \in Passes : PassGotZone(k)
    \/ \E k \in Passes : IndexGotRecord(k)
    \/ \E k \in Passes : PassUpserted(k)
    \/ \E j \in Posts : IndexPostRequest(j)
    \/ IndexRemove
    \/ IPChange

IndexSpec == Init /\ [][IndexNext]_vars

\* ------------------------------------------------------------ properties
Elems(seq) == {seq[i] : i \in 1..Len(seq)}
IsPrefix(a, b) == Len(a) <= Len(b) /\ SubSeq(b, 1, Len(a)) = a

\* the domains a pass has called getZoneID for, in order
Attempted(r) == SubSeq(r.arr, 1, r.idx)
\* the pass resolved an IP, found it different from LastKnownIP and went on to
\* the per-domain work
Proceeded(r) == r.read /\ r.currentIP # r.lastIP
\* the positions whose attempt is over
Over(r) == IF r.pc = "done" THEN 1..r.idx ELSE 1..(r.idx - 1)
\* neither a pass nor an Add handler is suspended on an external call
Quiescent ==
    /\ \A k \in Passes : ~Running(pass[k])
    /\ \A j \in Posts : ~Running(post[j])
\* a scheduler-triggered pass that resolved the host's present IP has finished
FreshPassDone ==
    \E k \in Passes :
        pass[k].pc = "done" /\ pass[k].read /\ pass[k].epoch = nchanges
\* every IP resolution and every zone lookup made so far succeeded
NoLookupFailed ==
    /\ \A k \in Passes :
          /\ pass[k].pc = "done" => pass[k].read
          /\ Over(pass[k]) \subseteq pass[k].zoneOK
    /\ \A j \in Posts : post[j].reason \notin {"ip", "zone"}

\* C1 (convergence): in every quiescent state in which a scheduler-triggered
\* pass that resolved the latest public IP has run to completion, every pair
\* of the managed set has had an update or create call issued for it with
\* that IP.  The events are those the statement names (Add, IP change, timer
\* tick): behaviours in which an IP resolution or a zone lookup fails are
\* left out.
C1_Convergence ==
    (Quiescent /\ FreshPassDone /\ NoLookupFailed)
        => \A i \in 1..Len(domains) : <<domains[i], publicIP>> \in upsertCalls

\* C2 (idempotence): of two consecutive scheduler-triggered passes that
\* resolved the same public IP, the second issues no provider call (it never
\* reaches the first getZoneID).  Stated for whichever of the two resolved
\* its IP second: one of them at least has issued no provider call.
C2_Idempotence ==
    \A k \in 1..(MaxPasses - 1) :
        (pass[k].read /\ pass[k + 1].read
            /\ pass[k].currentIP = pass[k + 1].currentIP)
        => pass[k].idx = 0 \/ pass[k + 1].idx = 0

\* C3 (no stale overwrite): LastKnownIP never holds an IP that was resolved
\* before an IP that some pass has already committed: whoever has written,
\* the stored IP is at least as fresh as theirs.
C3_NoStaleOverwrite ==
    /\ \A k \in Passes :
          pass[k].wrote # <<>>
              => pass[k].epoch <= ipEpoch \/ getLastIP = pass[k].currentIP
    /\ \A j \in Posts :
          post[j].wrote # <<>>
              => post[j].epoch <= ipEpoch \/ getLastIP = post[j].currentIP

\* C4 (snapshot): the domains a scheduler-triggered pass attempts are, in
\* order, the managed set as it was when the pass began its loop, whatever
\* Add or Remove does meanwhile.
C4_Snapshot ==
    \A k \in Passes :
        Proceeded(pass[k])
        => IF pass[k].pc = "done"
           THEN Attempted(pass[k]) = pass[k].snap
           ELSE IsPrefix(Attempted(pass[k]), pass[k].snap)

\* the pairs whose zone lookup failed in a pass
FailedIn(r) == {r.arr[i] : i \in Over(r) \ r.zoneOK}

\* C5 (retry): a pair whose provider call failed in a scheduler-triggered
\* pass (here: its zone lookup) is attempted again by the next
\* scheduler-triggered pass: when that pass resolves an IP after the first
\* has finished, and the pair is still managed, it sets out on a loop over an
\* array that holds the pair.
C5_RetryFailed ==
    [][\A k \in 1..(MaxPasses - 1) :
          \A d \in FailedIn(pass[k]) :
              (/\ pass[k].pc = "done"
               /\ pass[k + 1].pc = "ip"
               /\ pass'[k + 1].read
               /\ d \in Elems(domains))
              => InLoop(pass'[k + 1]) /\ d \in Elems(pass'[k + 1].arr)]_vars

\* C6 (isolation): a pass that proceeds to the per-domain work ends only
\* after it has attempted every element of the array it walks, whatever
\* failed on the way, and every position whose zone resolved gets an update
\* or create call.
C6_Isolation ==
    \A k \in Passes :
        Proceeded(pass[k])
        => /\ pass[k].pc = "done" => pass[k].idx = Len(pass[k].arr)
           /\ \A i \in pass[k].zoneOK :
                 i \in pass[k].issued \/ (i = pass[k].idx /\ pass[k].pc = "rec")
\* a finished pass in which one pair's zone was not found and a later pair
\* was upserted all the same
C6_Witness ==
    \E k \in Passes :
        /\ pass[k].pc = "done"
        /\ \E a, b \in 1..pass[k].idx :
              a < b /\ a \notin pass[k].zoneOK /\ b \in pass[k].issued

\* C7 (no duplicates): the managed set, its file and every array a pass walks
\* hold no pair twice, and an Add answered "duplicate" has pushed nothing.
C7_NoDuplicates ==
    /\ NoDup(domains)
    /\ NoDup(domainsFile.list)
    /\ \A k \in Passes : NoDup(pass[k].arr)
    /\ \A j \in Posts :
          post[j].reason = "duplicate"
              => post[j].status = 400 /\ ~post[j].pushed
\* an Add of a pair already present was rejected
C7_Witness ==
    \E j \in Posts :
        post[j].reason = "duplicate" /\ Present(domains, post[j].body)

\* C8 (Add response contract): an Add that changed the managed set is
\* answered 201; 400 is answered only for missing fields or a duplicate; an
\* Add answered anything but 201 has not changed the managed set.
C8_AddResponse ==
    \A j \in Posts :
        post[j].pc = "done"
        => /\ post[j].pushed => post[j].status = 201
           /\ post[j].status = 400 => post[j].reason \in {"missing", "duplicate"}

\* C9 (single commit after the loop): a pass writes LastKnownIP at most once,
\* only when it has attempted every domain of its scope and is over, and
\* writes the IP it resolved; last_ip.txt changes in no other way.
C9_SingleCommit ==
    /\ \A k \in Passes :
          /\ Len(pass[k].wrote) <= 1
          /\ pass[k].wrote # <<>>
                => /\ pass[k].pc = "done"
                   /\ Proceeded(pass[k])
                   /\ pass[k].idx = Len(pass[k].arr)
                   /\ pass[k].wrote[1] = pass[k].currentIP
    /\ \A j \in Posts :
          /\ Len(post[j].wrote) <= 1
          /\ post[j].wrote # <<>>
                => /\ post[j].pc = "done"
                   /\ post[j].issued
                   /\ post[j].wrote[1] = post[j].currentIP
    /\ \/ ipFile \in InitIPFile
       \/ \E k \in Passes : pass[k].wrote = <<ipFile>>
       \/ \E j \in Posts : post[j].wrote = <<ipFile>>
\* a pass over two domains has committed
C9_Witness ==
    \E k \in Passes :
        pass[k].wrote # <<>> /\ Len(pass[k].arr) >= 2 /\ ipFile = pass[k].currentIP

\* C10 (uninitialized state): a scheduler-triggered pass that resolved an IP
\* and found no LastKnownIP goes on to the per-domain work, attempts every
\* pair that was managed and then persists the IP it resolved.
C10_Uninitialized ==
    \A k \in Passes :
        (pass[k].read /\ pass[k].lastIP = Null)
        => IF pass[k].pc = "done"
           THEN /\ pass[k].wrote = <<pass[k].currentIP>>
                /\ pass[k].idx = Len(pass[k].arr)
                /\ IsPrefix(pass[k].snap, pass[k].arr)
           ELSE InLoop(pass[k])
\* a pass that found no last_ip.txt has attempted a managed pair and committed
C10_Witness ==
    \E k \in Passes :
        /\ pass[k].pc = "done"
        /\ pass[k].read
        /\ pass[k].lastIP = Null
        /\ Len(pass[k].snap) >= 1
        /\ ipFile = pass[k].currentIP

\* C11 (create-or-update): in every reconciliation loop, a pair whose zone ID
\* resolved gets an update or create call before the loop leaves it: every
\* position of a pass whose zone resolved and whose attempt is over, and every
\* add-triggered attempt that got past its zone lookup and was answered, has
\* had its call issued.  A record lookup that finds nothing skips no pair.
C11_CreateOrUpdate ==
    /\ \A k \in Passes :
          \A i \in pass[k].zoneOK \cap Over(pass[k]) : i \in pass[k].issued
    /\ \A j \in Posts :
          (post[j].pc = "done" /\ post[j].currentIP # Null
              /\ post[j].reason = "added")
          => post[j].issued

\* C12 (immediate upsert on add): an accepted Add whose IP resolution and zone
\* lookup succeeded has, by the time it is answered, issued an update or
\* create call for the new pair with the IP it resolved, whether or not that
\* IP equals LastKnownIP, and is answered 201.
C12_ImmediateUpsert ==
    \A j \in Posts :
        (post[j].pc = "done" /\ post[j].pushed /\ post[j].currentIP # Null
            /\ post[j].reason # "zone")
        => /\ post[j].issued
           /\ <<post[j].body, post[j].currentIP>> \in upsertCalls
           /\ post[j].status = 201
\* an Add was answered after its call although the IP it resolved was the
\* stored one (it did not write last_ip.txt)
C12_Witness ==
    \E j \in Posts :
        /\ post[j].pc = "done"
        /\ post[j].issued
        /\ post[j].wrote = <<>>
        /\ getLastIP = post[j].currentIP

\* C13 (add-scope commit): when an add-triggered pass that resolved an IP
\* ends, whatever became of its single attempt (zone not found included),
\* LastKnownIP is the IP it resolved, and last_ip.txt is written in that step
\* only if the stored IP differed.
C13_AddCommit ==
    [][\A j \in Posts :
          (Running(post[j]) /\ post'[j].pc = "done" /\ post'[j].currentIP # Null)
          => /\ getLastIP' = post'[j].currentIP
             /\ ipFile' # ipFile => getLastIP # post'[j].currentIP]_vars

\* what a request must leave alone to have mutated nothing and called nobody
Untouched == UNCHANGED <<domains, domainsFile, ipFile, upsertCalls, pass>>

\* C14 (unauthorized requests mutate nothing): a POST or DELETE /domains
\* whose x-api-key header is absent or differs from API_KEY is answered 401
\* in the step it arrives, and that step changes neither the managed set (in
\* memory or in domains.json) nor last_ip.txt and issues no provider call; a
\* request with the matching key is not answered 401.
C14_Unauthorized ==
    [][/\ \A j \in Posts :
             (post[j].pc = "idle" /\ post'[j].pc # "idle")
             => IF post'[j].key = API_KEY
                THEN post'[j].status # 401
                ELSE /\ post'[j].status = 401
                     /\ post'[j].pc = "done"
                     /\ Untouched
       /\ del'.n # del.n
             => IF del'.key = API_KEY
                THEN del'.status # 401
                ELSE del'.status = 401 /\ Untouched]_vars
\* a POST with a wrong key and a DELETE without one were turned away while a
\* pair was managed
C14_Witness ==
    /\ \E j \in Posts : post[j].status = 401 /\ post[j].key = "wrong"
    /\ del.status = 401
    /\ del.key = ""
    /\ domains # <<>>

\* C15 (IP-resolution failure is a no-op): the step in which getPublicIP
\* fails ends the pass, timer-triggered or add-triggered, at once: no zone
\* lookup, record lookup, update or create call is issued and last_ip.txt is
\* not written.
C15_IPFailureNoOp ==
    [][/\ \A k \in Passes :
             (pass[k].pc = "ip" /\ pass'[k].pc # "ip" /\ ~pass'[k].read)
             => /\ pass'[k].pc = "done"
                /\ pass'[k].idx = 0
                /\ pass'[k].wrote = <<>>
                /\ UNCHANGED <<ipFile, upsertCalls>>
       /\ \A j \in Posts :
             (post[j].pc = "ip" /\ post'[j].pc # "ip" /\ post'[j].currentIP = Null)
             => /\ post'[j].pc = "done"
                /\ ~post'[j].issued
                /\ post'[j].wrote = <<>>
                /\ UNCHANGED <<ipFile, upsertCalls, pass>>]_vars
\* a timer-triggered pass and an Add have both seen getPublicIP fail while no
\* LastKnownIP was stored
C15_Witness ==
    /\ \E k \in Passes : pass[k].pc = "done" /\ ~pass[k].read
    /\ \E j \in Posts : post[j].reason = "ip"
    /\ ipFile = NoFile

\* C16 (Remove): an admitted DELETE naming a managed pair is answered 200,
\* removes exactly that pair from the managed set and writes the new set to
\* domains.json; one naming a pair that is not managed is answered 404 and
\* leaves the set and its file as they were.  Either way last_ip.txt is not
\* written, no provider call is issued and no pass or Add handler moves.
C16_Remove ==
    [][del'.n # del.n
          => /\ (del'.key = API_KEY /\ del'.body \in Pairs)
                   => del'.status = IF del'.body \in Elems(domains)
                                    THEN 200 ELSE 404
             /\ del'.status = 200
                   => /\ del'.body \in Elems(domains)
                      /\ Elems(domains') = Elems(domains) \ {del'.body}
                      /\ Len(domains') = Len(domains) - 1
                      /\ domainsFile'.state = "json"
                      /\ domainsFile'.list = domains'
             /\ del'.status = 404
                   => /\ del'.body \notin Elems(domains)
                      /\ domains' = domains
                      /\ domainsFile' = domainsFile
             /\ UNCHANGED <<ipFile, upsertCalls, post>>
             /\ \A k \in Passes : pass'[k].pc = pass[k].pc]_vars
\* a managed pair was removed and another one stayed
C16_Witness == del.status = 200 /\ domains # <<>>

\* C17 (serialized passes): at no time is more than one reconciliation pass,
\* timer-triggered or add-triggered, suspended on an external call: while one
\* is in progress no other starts.
C17_Serialized ==
    Cardinality({k \in Passes : Running(pass[k])})
        + Cardinality({j \in Posts : Running(post[j])}) <= 1

\* what one step may do to an invocation of updateDNS: p before, q after
CallOrder(p, q) ==
    /\ q.idx \in {p.idx, p.idx + 1}
    /\ (q.pc # p.pc \/ q.idx # p.idx)
          => CASE p.pc = "idle" ->
                    q.pc = "ip" /\ q.idx = 0
               [] p.pc = "ip" ->
                    q.pc = "done" \/ (q.pc = "zone" /\ q.idx = 1)
               [] p.pc = "zone" ->
                    \/ q.pc = "rec" /\ q.idx = p.idx /\ p.idx \in q.zoneOK
                    \/ q.pc = "zone" /\ q.idx = p.idx + 1
                    \/ q.pc = "done" /\ q.idx = p.idx
               [] p.pc = "rec" ->
                    q.pc \in {"upd", "cre"} /\ q.idx = p.idx
               [] p.pc \in {"upd", "cre"} ->
                    \/ q.pc = "zone" /\ q.idx = p.idx + 1
                    \/ q.pc = "done" /\ q.idx = p.idx
               [] OTHER -> FALSE
    /\ q.issued # p.issued
          => /\ p.pc = "rec"
             /\ p.idx \notin p.issued
             /\ q.issued = p.issued \cup {p.idx}
             /\ <<p.arr[p.idx], p.currentIP>> \in upsertCalls'
    /\ InLoop(p) => q.currentIP = p.currentIP
    /\ q.wrote # p.wrote
          => /\ q.pc = "done"
             /\ q.idx = Len(q.arr)
             /\ q.wrote = <<q.currentIP>>
             /\ ipFile' = q.currentIP
    /\ NoDup(q.arr)

\* C18 (per-domain call order): in a pass that proceeds to per-domain work
\* the calls for each pair come in the order zone lookup, record lookup, one
\* update or create, the pairs are taken one after the other and none twice,
\* every update or create carries the IP the pass resolved at its start, and
\* last_ip.txt is written only as the pass ends, after the last pair's calls.
C18_CallOrder ==
    [][\A k \in Passes :
          pass'[k] # pass[k] => CallOrder(pass[k], pass'[k])]_vars
\* a pass has looked up, upserted and left behind every pair of a non-empty
\* array and has then written the IP it resolved
C18_Witness ==
    \E k \in Passes :
        /\ pass[k].pc = "done"
        /\ pass[k].arr # <<>>
        /\ pass[k].issued = 1..Len(pass[k].arr)
        /\ pass[k].wrote = <<pass[k].currentIP>>

\* C19 (persisted set tracks the in-memory set): in every state, that is at
\* every await and every handler return, domains.json would reload as
\* exactly the in-memory managed set, and unless it still is the unreadable
\* file found at start-up it holds the JSON text of that set.
C19_PersistedTracks ==
    /\ LoadDomains(domainsFile) = domains
    /\ domainsFile.state # "corrupt"
          => domainsFile.state = "json" /\ domainsFile.list = domains
\* an Add and a Remove have both rewritten the file
C19_Witness ==
    /\ \E j \in Posts : post[j].pushed
    /\ del.status = 200
    /\ domainsFile.state = "json"

\* C20 (scheduler liveness): a pass is started at process start; whenever a
\* pass has been started the timer starts the next one, whatever became of
\* the earlier ones (within the model's bound: unless MaxEvents events have
\* happened); and every pass that is started ends, given that every external
\* call returns.
C20_SchedulerLiveness ==
    /\ pass[1].pc # "idle"
    /\ \A k \in 2..MaxPasses :
          (pass[k - 1].pc # "idle")
              ~> (pass[k].pc # "idle" \/ nevents = MaxEvents)
    /\ \A k \in Passes : (pass[k].pc # "idle") ~> (pass[k].pc = "done")
\* the pass after one whose IP resolution failed, and the pass after one that
\* took the unchanged-IP fast path, have been started and have ended
C20_Witness ==
    /\ \A k \in Passes : pass[k].pc = "done"
    /\ \E k \in 1..(MaxPasses - 1) : ~pass[k].read
    /\ \E k \in 1..(MaxPasses - 1) :
          pass[k].read /\ pass[k].currentIP = pass[k].lastIP

====
